---- MODULE Spec2Model ----
(***************************************************************************)
(* Simulated_OS: a processor process (parent) and a main-memory process    *)
(* (child) that talk through two pipes and SIGINT.                         *)
(*                                                                         *)
(* Spec      the execution loop of the processor, one action per function  *)
(*           of the loop (fetchInstruction, executeInstruction,            *)
(*           checkInterrupt); every memory access is a complete round trip *)
(*           through signalhandler.                                        *)
(* SpecChan  readMemory / writeMemory and signalhandler system call by     *)
(*           system call, the two processes interleaved.                   *)
(* SpecFrame pushRegistersOnStack / popRegistersOnStack applied to drawn   *)
(*           register files (the stack self-test of debugProgram).         *)
(* SpecAccess verifyAccess applied to drawn addresses and modes.           *)
(* SpecStore signalhandler against a caller that skips verifyAccess and    *)
(*           writes any action word and address.                           *)
(* SpecBoot  main: the command line, fork, the load of the program file,   *)
(*           the handshake, then the execution loop.                       *)
(* SpecScenario the execution loop on the program 1 5 7 10 2 10 9 1 50.    *)
(* SpecResume the execution loop with the state found by the last          *)
(*           interrupt entry recorded beside it.                           *)
(***************************************************************************)
EXTENDS Integers, Sequences, FiniteSets, TLC

\* ---------------------------------------------------------------- program.h
MEMORY_SIZE == 2000
SYS_INDEX == 1000
INT_INDEX == 1500

\* enum register_values
PC == 0
IR == 1
AC == 2
X == 3
Y == 4
SP == 5
REGCOUNT == 6

\* enum mem_codes
READ == 0
WRITE == 1

\* enum error_codes
SUCCESS == 0
CLI_FAILURE == 1
FORK_FAILURE == 2
PIPE_FAILURE == 3
FILE_PARSE_FAILURE == 4
INVALID_OPCODE == 5
PROGRAM_PATH_FAILURE == 6
READ_FAILURE == 7
WRITE_FAILURE == 8
INVALID_MEM_ACTION == 9
MEMORY_OUT_OF_BOUNDS == 10
KERNEL_MEM_ACCESS_DENIED == 11
USER_MEM_ACCESS_DENIED == 12
INVALID_PORT_CALL == 13

\* enum instruction
LOAD_VAL == 1
LOAD_ADDR == 2
LOAD_IND_ADDR == 3
LOAD_IDX_X_ADDR == 4
LOAD_IDX_Y_ADDR == 5
LOAD_SPX == 6
STORE == 7
GET == 8
PUT == 9
ADDX == 10
ADDY == 11
SUBX == 12
SUBY == 13
COPY_TO_X == 14
COPY_FR_X == 15
COPY_TO_Y == 16
COPY_FR_Y == 17
COPY_TO_SP == 18
COPY_FR_SP == 19
JUMP == 20
JUMP_IF_EQ == 21
JUMP_IF_NEQ == 22
JUMP_RETURN == 23
RETURN == 24
INCX == 25
DECX == 26
PUSH == 27
POP == 28
SYSCALL == 29
SYSRETURN == 30
END == 50

\* ------------------------------------------------------------------ bounds
\* timer values given on the command line: 0 .. MaxTimer
MaxTimer == 3
\* the execution loop is followed for at most MaxCount instructions
MaxCount == 9

VARIABLES
  registers,            \* processor.cc: int registers[REGCOUNT]
  kernelMode,           \* processor.cc: bool kernelMode
  interruptEnabledFlag, \* processor.cc: bool interruptEnabledFlag
  inactive_sys_stack,   \* processor.cc: saved kernel stack pointer
  inactive_proc_stack,  \* processor.cc: saved user stack pointer
  interrupt_timer,      \* processor.cc: int interrupt_timer
  instruction_counter,  \* processor.cc: int instruction_counter
  memory,               \* memory.cc: int memory[MEMORY_SIZE]
  memAlive,             \* the main-memory process has not been SIGKILLed
  exited,               \* the processor process has called exit()
  exitCode,             \* its exit status
  crashed,              \* the processor process was ended by a signal
  output,               \* what the processor wrote to cout
  sent,                 \* the requests written to the pipe by the last action
  phase,                \* position of the processor in its loop
  probe,                \* SpecAccess: the address; SpecFrame: the registers
                        \* before the push
  writeToMem,           \* the pipe processor -> main memory (words unread)
  readFromMem,          \* the pipe main memory -> processor (words unread)
  sigint,               \* a SIGINT is pending for the main memory
  ppc,                  \* SpecChan: position of the processor in
                        \* readMemory / writeMemory
  call,                 \* SpecChan: the call in progress and its locals
  mpc,                  \* SpecChan: position of the main memory
  hloc,                 \* SpecChan: the locals of signalhandler
  calls,                \* SpecChan: calls completed
  shadow                \* SpecChan: what the processor last wrote at, or
                        \* else the loaded content of, the addresses it uses

cpuVars == <<registers, kernelMode, interruptEnabledFlag, inactive_sys_stack,
             inactive_proc_stack, interrupt_timer, instruction_counter,
             memory, memAlive, exited, exitCode, crashed, output, sent, phase>>

chanVars == <<writeToMem, readFromMem, sigint, ppc, call, mpc, hloc, calls,
              shadow>>

\* ------------------------------------------------- the processor's state
\* The state the functions of processor.cc read and write, as one record.
St ==
  [registers |-> registers, kernelMode |-> kernelMode,
   interruptEnabledFlag |-> interruptEnabledFlag,
   inactive_sys_stack |-> inactive_sys_stack,
   inactive_proc_stack |-> inactive_proc_stack,
   memory |-> memory, memAlive |-> memAlive,
   exited |-> exited, exitCode |-> exitCode,
   output |-> output, sent |-> <<>>]

\* endProcess: kill the main memory, print, exit(exitCode).
endProcess(s, code) ==
  [s EXCEPT !.memAlive = FALSE, !.exited = TRUE, !.exitCode = code]

\* verifyAccess without its last test: Kernel mode may touch user cells
verifyAccess_noUserTest(address, kernel) ==
  IF address < 0 \/ address >= MEMORY_SIZE THEN <<MEMORY_OUT_OF_BOUNDS>>
  ELSE IF address >= SYS_INDEX /\ ~kernel THEN <<KERNEL_MEM_ACCESS_DENIED>>
  ELSE <<>>

\* verifyAccess with > for >= in the bounds test
verifyAccess_offByOne(address, kernel) ==
  IF address < 0 \/ address > MEMORY_SIZE THEN <<MEMORY_OUT_OF_BOUNDS>>
  ELSE IF address >= SYS_INDEX /\ ~kernel THEN <<KERNEL_MEM_ACCESS_DENIED>>
  ELSE IF address < SYS_INDEX /\ kernel THEN <<USER_MEM_ACCESS_DENIED>>
  ELSE <<>>

\* verifyAccess with the bounds test after the two mode tests
verifyAccess_boundsLast(address, kernel) ==
  IF address >= SYS_INDEX /\ ~kernel THEN <<KERNEL_MEM_ACCESS_DENIED>>
  ELSE IF address < SYS_INDEX /\ kernel THEN <<USER_MEM_ACCESS_DENIED>>
  ELSE IF address < 0 \/ address >= MEMORY_SIZE THEN <<MEMORY_OUT_OF_BOUNDS>>
  ELSE <<>>

\* verifyAccess, as the list of exit codes it ends the process with:
\* <<>> when it returns to its caller.
verifyAccess(address, kernel) ==
  IF address < 0 \/ address >= MEMORY_SIZE THEN <<MEMORY_OUT_OF_BOUNDS>>
  ELSE IF address >= SYS_INDEX /\ ~kernel THEN <<KERNEL_MEM_ACCESS_DENIED>>
  ELSE IF address < SYS_INDEX /\ kernel THEN <<USER_MEM_ACCESS_DENIED>>
  ELSE <<>>

\* signalhandler of the main memory, run to completion on one request:
\* inPipe is what the processor wrote; the result is the memory, what is
\* left unread in the pipe, and the words written back.  A read() on an
\* empty pipe blocks: blocked is TRUE and nothing is answered.
signalhandler(mem, inPipe) ==
  IF Len(inPipe) < 2
    THEN [memory |-> mem, rest |-> <<>>, resp |-> <<>>, blocked |-> TRUE]
  ELSE
    LET action  == inPipe[1]
        address == inPipe[2]
        rest2   == SubSeq(inPipe, 3, Len(inPipe))
        inRange == address >= 0 /\ address < MEMORY_SIZE
    IN IF action = READ
         THEN IF inRange
                THEN [memory |-> mem, rest |-> rest2,
                      resp |-> <<SUCCESS, mem[address]>>, blocked |-> FALSE]
                ELSE [memory |-> mem, rest |-> rest2,
                      resp |-> <<READ_FAILURE>>, blocked |-> FALSE]
       ELSE IF action = WRITE
         THEN IF inRange
                THEN IF Len(rest2) < 1
                       THEN [memory |-> mem, rest |-> <<>>, resp |-> <<>>,
                             blocked |-> TRUE]
                       ELSE [memory |-> [mem EXCEPT ![address] = rest2[1]],
                             rest |-> Tail(rest2),
                             resp |-> <<SUCCESS>>, blocked |-> FALSE]
                ELSE [memory |-> mem, rest |-> rest2,
                      resp |-> <<WRITE_FAILURE>>, blocked |-> FALSE]
       ELSE [memory |-> mem, rest |-> rest2,
             resp |-> <<INVALID_MEM_ACTION>>, blocked |-> FALSE]

\* readMemory: [s |-> state after the call, v |-> value returned].
\* Once the process has exited nothing more runs.
readMemory(s, address) ==
  IF s.exited THEN [s |-> s, v |-> 0]
  ELSE
    LET denied == verifyAccess(address, s.kernelMode) IN
    IF denied # <<>> THEN [s |-> endProcess(s, denied[1]), v |-> 0]
    ELSE
      LET h  == signalhandler(s.memory, <<READ, address>>)
          s1 == [s EXCEPT !.memory = h.memory,
                          !.sent = Append(@, [kind |-> READ, address |-> address,
                                              kernel |-> s.kernelMode])]
          status == h.resp[1]
      IN IF status # SUCCESS
           THEN [s |-> endProcess(s1, status), v |-> 0]
           ELSE [s |-> s1, v |-> h.resp[2]]

\* writeMemory: the state after the call.
writeMemory(s, address, value) ==
  IF s.exited THEN s
  ELSE
    LET denied == verifyAccess(address, s.kernelMode) IN
    IF denied # <<>> THEN endProcess(s, denied[1])
    ELSE
      LET h  == signalhandler(s.memory, <<WRITE, address, value>>)
          s1 == [s EXCEPT !.memory = h.memory,
                          !.sent = Append(@, [kind |-> WRITE, address |-> address,
                                              value |-> value,
                                              kernel |-> s.kernelMode])]
          status == h.resp[1]
      IN IF status # SUCCESS THEN endProcess(s1, status) ELSE s1

\* registers[r] = v, unless the process has already exited.
setReg(s, r, v) ==
  IF s.exited THEN s ELSE [s EXCEPT !.registers[r] = v]

\* pushStack with registers[SP]-- for --registers[SP]
pushStack_postDecrement(s, value) ==
  LET s1 == setReg(s, SP, s.registers[SP] - 1)
  IN writeMemory(s1, s.registers[SP], value)

\* pushStack: writeMemory(--registers[SP], value)
pushStack(s, value) ==
  LET s1 == setReg(s, SP, s.registers[SP] - 1)
  IN writeMemory(s1, s1.registers[SP], value)

\* popStack with ++registers[SP] for registers[SP]++
popStack_preIncrement(s) ==
  LET a  == s.registers[SP] + 1
      s1 == setReg(s, SP, a)
  IN readMemory(s1, a)

\* popStack: readMemory(registers[SP]++)
popStack(s) ==
  LET a  == s.registers[SP]
      s1 == setReg(s, SP, a + 1)
  IN readMemory(s1, a)

\* the loop of pushRegistersOnStack from index i on
RECURSIVE pushLoop(_, _)

\* the loop of pushRegistersOnStack writing registers[i] for registers[i-1]
RECURSIVE pushLoop_shifted(_, _)
pushLoop_shifted(s, i) ==
  IF i >= REGCOUNT \/ s.exited THEN s
  ELSE pushLoop_shifted(writeMemory(s, s.registers[SP] - i, s.registers[i]),
                        i + 1)

pushLoop(s, i) ==
  IF i >= REGCOUNT \/ s.exited THEN s
  ELSE pushLoop(writeMemory(s, s.registers[SP] - i, s.registers[i - 1]), i + 1)

\* pushRegistersOnStack with SP -= REGCOUNT
pushRegistersOnStack_six(s) ==
  LET s1 == pushLoop(s, 1)
  IN setReg(s1, SP, s1.registers[SP] - REGCOUNT)

\* pushRegistersOnStack: PC, IR, AC, X, Y to SP-1 .. SP-5, then SP -= 5
pushRegistersOnStack(s) ==
  LET s1 == pushLoop(s, 1)
  IN setReg(s1, SP, s1.registers[SP] - (REGCOUNT - 1))

\* the loop of popRegistersOnStack from index i on
RECURSIVE popLoop(_, _)

\* the loop of popRegistersOnStack reading the cells in ascending order
RECURSIVE popLoop_ascending(_, _)
popLoop_ascending(s, i) ==
  IF i >= REGCOUNT \/ s.exited THEN s
  ELSE LET r == readMemory(s, s.registers[SP] + i - 1)
       IN popLoop_ascending(setReg(r.s, i - 1, r.v), i + 1)

popLoop(s, i) ==
  IF i >= REGCOUNT \/ s.exited THEN s
  ELSE LET r == readMemory(s, s.registers[SP] + REGCOUNT - 1 - i)
       IN popLoop(setReg(r.s, i - 1, r.v), i + 1)

\* popRegistersOnStack without its last line: SP stays on the frame
popRegistersOnStack_keepSP(s) == popLoop(s, 1)

\* popRegistersOnStack: PC, IR, AC, X, Y from SP+4 .. SP, then SP += 5
popRegistersOnStack(s) ==
  LET s1 == popLoop(s, 1)
  IN setReg(s1, SP, s1.registers[SP] + (REGCOUNT - 1))

\* syscall without its two tests: an interrupt nests
syscall_nested(s, address) ==
  IF s.exited THEN s
  ELSE LET s1 == [s EXCEPT !.kernelMode = TRUE,
                           !.interruptEnabledFlag = FALSE,
                           !.inactive_proc_stack = s.registers[SP],
                           !.registers[SP] = s.inactive_sys_stack]
           s2 == pushRegistersOnStack(s1)
       IN setReg(s2, PC, address)

\* syscall with the recursive interrupt carried out: in Kernel mode the
\* registers are pushed on the stack in use and the handler is entered
syscall_recursive(s, address) ==
  IF s.exited THEN s
  ELSE IF s.kernelMode
    THEN LET s2 == pushRegistersOnStack(s)
         IN setReg(s2, PC, address)
  ELSE IF s.interruptEnabledFlag
    THEN LET s1 == [s EXCEPT !.kernelMode = TRUE,
                             !.interruptEnabledFlag = FALSE,
                             !.inactive_proc_stack = s.registers[SP],
                             !.registers[SP] = s.inactive_sys_stack]
             s2 == pushRegistersOnStack(s1)
         IN setReg(s2, PC, address)
  ELSE s

\* syscall(address): the mode switch into the handler at address
syscall(s, address) ==
  IF s.exited THEN s
  ELSE IF s.interruptEnabledFlag
    THEN IF ~s.kernelMode
           THEN LET s1 == [s EXCEPT !.kernelMode = TRUE,
                                    !.interruptEnabledFlag = FALSE,
                                    !.inactive_proc_stack = s.registers[SP],
                                    !.registers[SP] = s.inactive_sys_stack]
                    s2 == pushRegistersOnStack(s1)
                IN setReg(s2, PC, address)
           ELSE s    \* recursive interrupt (not implemented)
    ELSE s

\* return_syscall that leaves the interrupts disabled
return_syscall_masked(s) ==
  LET s1 == popRegistersOnStack(s)
  IN IF s1.exited THEN s1
     ELSE [s1 EXCEPT !.inactive_sys_stack = s1.registers[SP],
                     !.registers[SP] = s1.inactive_proc_stack,
                     !.kernelMode = FALSE]

\* return_syscall: restore the registers and switch back to user mode
return_syscall(s) ==
  LET s1 == popRegistersOnStack(s)
  IN IF s1.exited THEN s1
     ELSE [s1 EXCEPT !.inactive_sys_stack = s1.registers[SP],
                     !.registers[SP] = s1.inactive_proc_stack,
                     !.interruptEnabledFlag = TRUE,
                     !.kernelMode = FALSE]

\* fetchInstruction: registers[IR] = readMemory(registers[PC])
fetchInstruction(s) ==
  LET r == readMemory(s, s.registers[PC])
  IN setReg(r.s, IR, r.v)

\* readMemory(registers[PC]): the operand read, PC left on it
operand_noAdvance(s) == readMemory(s, s.registers[PC])

\* readMemory(registers[PC]++): the operand on the next line
operand(s) ==
  LET a  == s.registers[PC]
      s1 == setReg(s, PC, a + 1)
  IN readMemory(s1, a)

\* cout << ..., unless the process has already exited; (char) keeps the
\* low byte
print(s, what) ==
  IF s.exited THEN s ELSE [s EXCEPT !.output = Append(@, what)]

\* the default case falling out of the switch
invalidOpcode_ignored(s) == s

\* executeInstruction, default: endProcess(INVALID_OPCODE)
invalidOpcode(s) == endProcess(s, INVALID_OPCODE)

\* executeInstruction: the switch on registers[IR]; rnd is what
\* (rand() % 100) + 1 gives
executeInstruction(s, rnd) ==
  LET op == s.registers[IR]
      r  == s.registers
  IN
  CASE op = LOAD_VAL ->
         LET o == operand(s) IN setReg(o.s, AC, o.v)
    [] op = LOAD_ADDR ->
         LET o == operand(s)
             v == readMemory(o.s, o.v)
         IN setReg(v.s, AC, v.v)
    [] op = LOAD_IND_ADDR ->
         LET o == operand(s)
             t == readMemory(o.s, o.v)
             v == readMemory(t.s, t.v)
         IN setReg(v.s, AC, v.v)
    [] op = LOAD_IDX_X_ADDR ->
         LET o == operand(s)
             v == readMemory(o.s, o.v + o.s.registers[X])
         IN setReg(v.s, AC, v.v)
    [] op = LOAD_IDX_Y_ADDR ->
         LET o == operand(s)
             v == readMemory(o.s, o.v + o.s.registers[Y])
         IN setReg(v.s, AC, v.v)
    [] op = LOAD_SPX ->
         LET v == readMemory(s, r[SP] + r[X]) IN setReg(v.s, AC, v.v)
    [] op = STORE ->
         LET o == operand(s) IN writeMemory(o.s, o.v, o.s.registers[AC])
    [] op = GET -> setReg(s, AC, rnd)
    [] op = PUT ->
         LET o == operand(s)
         IN IF o.s.exited THEN o.s
            ELSE IF o.v = 1 THEN print(o.s, <<"int", o.s.registers[AC]>>)
            ELSE IF o.v = 2 THEN print(o.s, <<"char", o.s.registers[AC] % 256>>)
            ELSE endProcess(o.s, INVALID_PORT_CALL)
    [] op = ADDX -> setReg(s, AC, r[AC] + r[X])
    [] op = ADDY -> setReg(s, AC, r[AC] + r[Y])
    [] op = SUBX -> setReg(s, AC, r[AC] - r[X])
    [] op = SUBY -> setReg(s, AC, r[AC] - r[Y])
    [] op = COPY_TO_X -> setReg(s, X, r[AC])
    [] op = COPY_FR_X -> setReg(s, AC, r[X])
    [] op = COPY_TO_Y -> setReg(s, Y, r[AC])
    [] op = COPY_FR_Y -> setReg(s, AC, r[Y])
    [] op = COPY_TO_SP -> setReg(s, SP, r[AC])
    [] op = COPY_FR_SP -> setReg(s, AC, r[SP])
    [] op = JUMP ->
         LET v == readMemory(s, r[PC]) IN setReg(v.s, PC, v.v)
    [] op = JUMP_IF_EQ ->
         LET o == operand(s)
         IN IF o.s.registers[AC] = 0 THEN setReg(o.s, PC, o.v) ELSE o.s
    [] op = JUMP_IF_NEQ ->
         LET o == operand(s)
         IN IF o.s.registers[AC] # 0 THEN setReg(o.s, PC, o.v) ELSE o.s
    [] op = JUMP_RETURN ->
         LET s1 == pushStack(s, r[PC] + 1)
             v  == readMemory(s1, s1.registers[PC])
         IN setReg(v.s, PC, v.v)
    [] op = RETURN ->
         LET v == popStack(s) IN setReg(v.s, PC, v.v)
    [] op = INCX -> setReg(s, X, r[X] + 1)
    [] op = DECX -> setReg(s, X, r[X] - 1)
    [] op = PUSH -> pushStack(s, r[AC])
    [] op = POP ->
         LET v == popStack(s) IN setReg(v.s, AC, v.v)
    [] op = SYSCALL -> syscall(s, INT_INDEX)
    [] op = SYSRETURN -> return_syscall(s)
    [] op = END -> endProcess(s, SUCCESS)
    [] OTHER -> invalidOpcode(s)

\* ------------------------------------------------------ the loaded image
\* run_main_memory: the program file's numbers loaded from address 0, after
\* ".1000" from 1000 and after ".1500" from 1500; every other cell of the
\* global array is 0.
Image(user, timerH, sysH) ==
  [a \in 0..(MEMORY_SIZE - 1) |->
     IF a < Len(user) THEN user[a + 1]
     ELSE IF a >= SYS_INDEX /\ a < SYS_INDEX + Len(timerH)
       THEN timerH[a - SYS_INDEX + 1]
     ELSE IF a >= INT_INDEX /\ a < INT_INDEX + Len(sysH)
       THEN sysH[a - INT_INDEX + 1]
     ELSE 0]

\* user programs
UserPrograms ==
  { <<LOAD_VAL, 5, STORE, 10, LOAD_ADDR, 10, PUT, 1, END>>,
    <<SYSCALL, INCX, END>>,
    <<INCX, SYSCALL, INCX, SYSCALL, END>>,
    <<SYSRETURN, SYSCALL, END>>,
    <<LOAD_VAL, 5, PUSH, LOAD_VAL, 6, POP, END>>,
    <<STORE, 1000, END>>,
    <<JUMP, 1000>>,
    <<99>>,
    <<DECX, LOAD_IDX_X_ADDR, 0, END>>,
    <<JUMP_RETURN, 4, END, 0, INCX, RETURN>>,
    <<INCX, INCX, INCX, INCX, INCX, INCX, INCX, END>>,
    <<GET, COPY_TO_Y, SUBY, JUMP_IF_EQ, 6, 99, END>>,
    <<LOAD_VAL, 2000, COPY_TO_X, LOAD_SPX>>,
    <<PUT, 3>>,
    <<INCX, JUMP, 0>>,
    <<LOAD_VAL, 3, COPY_TO_SP, POP, PUSH, PUSH, PUSH, PUSH, PUSH>>,
    <<LOAD_VAL, 10, COPY_TO_SP, SYSRETURN, 0, 0, 0, 0, 0, 0,
      0, 0, 0, 0, 15, SYSCALL, INCX, END>> }

\* interrupt handlers
Handlers ==
  { <<SYSRETURN>>,
    <<LOAD_VAL, 7, COPY_TO_X, COPY_TO_Y, SYSRETURN>>,
    <<SYSCALL, SYSRETURN>>,
    <<POP, SYSRETURN>>,
    <<PUSH, SYSRETURN>>,
    <<LOAD_ADDR, 10, SYSRETURN>>,
    <<COPY_TO_SP, SYSRETURN>>,
    <<>> }

\* the timer handler and the system-call handler of one program file: the
\* same handler twice, or any handler beside the shortest one
HandlerPairs ==
  { h \in Handlers \X Handlers :
      h[1] = h[2] \/ h[1] = <<SYSRETURN>> \/ h[2] = <<SYSRETURN>> }

\* what (rand() % 100) + 1 gives
RandValues == {1, 100}

\* ------------------------------------------------- the execution loop
\* the assignments every action of the loop makes from the record t
Commit(t) ==
  /\ registers' = t.registers
  /\ kernelMode' = t.kernelMode
  /\ interruptEnabledFlag' = t.interruptEnabledFlag
  /\ inactive_sys_stack' = t.inactive_sys_stack
  /\ inactive_proc_stack' = t.inactive_proc_stack
  /\ memory' = t.memory
  /\ memAlive' = t.memAlive
  /\ exited' = t.exited
  /\ exitCode' = t.exitCode
  /\ output' = t.output
  /\ sent' = t.sent

\* both pipes empty, no signal pending, the main memory in pause()
ChanIdle ==
  /\ writeToMem = <<>>
  /\ readFromMem = <<>>
  /\ sigint = FALSE
  /\ ppc = "p_idle"
  /\ call = [kind |-> READ, address |-> 0, value |-> 0, status |-> 0,
             result |-> 0]
  /\ mpc = "m_pause"
  /\ hloc = [action |-> 0, address |-> 0, value |-> 0, returnCode |-> 0]
  /\ calls = 0
  /\ shadow = <<>>

\* run_processor: the registers and flags before the loop starts
ProcessorInit ==
  /\ registers = [i \in 0..(REGCOUNT - 1) |-> IF i = SP THEN SYS_INDEX ELSE 0]
  /\ inactive_sys_stack = MEMORY_SIZE
  /\ inactive_proc_stack = SYS_INDEX
  /\ instruction_counter = 0
  /\ interruptEnabledFlag = TRUE
  /\ kernelMode = FALSE
  /\ memAlive = TRUE
  /\ exited = FALSE
  /\ exitCode = 0
  /\ crashed = FALSE
  /\ output = <<>>
  /\ sent = <<>>

\* the machine when run_execution_cycle is entered
Init ==
  /\ \E user \in UserPrograms, h \in HandlerPairs :
        memory = Image(user, h[1], h[2])
  /\ interrupt_timer \in 0..MaxTimer
  /\ ProcessorInit
  /\ phase = "fetch"
  /\ probe = 0
  /\ ChanIdle

\* run_execution_cycle: fetchInstruction(); registers[PC]++;
FetchStep ==
  /\ phase = "fetch"
  /\ instruction_counter < MaxCount
  /\ LET s1 == fetchInstruction(St)
         t  == setReg(s1, PC, s1.registers[PC] + 1)
     IN /\ Commit(t)
        /\ phase' = IF t.exited THEN "exited" ELSE "execute"
  /\ UNCHANGED <<interrupt_timer, instruction_counter, crashed, chanVars>>

\* FetchStep with nothing recorded beside the loop
Fetch == FetchStep /\ UNCHANGED probe

\* run_execution_cycle without its instruction_counter++
countInstruction_omitted(counter) == counter

\* run_execution_cycle: instruction_counter++
countInstruction(counter) == counter + 1

\* run_execution_cycle: executeInstruction(); instruction_counter++;
ExecuteStep ==
  /\ phase = "execute"
  /\ \E rnd \in RandValues :
       LET t == executeInstruction(St, rnd)
       IN /\ Commit(t)
          /\ phase' = IF t.exited THEN "exited" ELSE "check"
          /\ instruction_counter' =
               IF t.exited THEN instruction_counter
               ELSE countInstruction(instruction_counter)
  /\ UNCHANGED <<interrupt_timer, crashed, chanVars>>

\* ExecuteStep with nothing recorded beside the loop
Execute == ExecuteStep /\ UNCHANGED probe

\* checkInterrupt: if(instruction_counter % interrupt_timer == 0)
\* syscall(SYS_INDEX).  With interrupt_timer = 0 the % is undefined: the
\* process is ended by SIGFPE, or the condition comes out either way.
UBOutcomes == {"sigfpe", "true", "false"}

\* checkInterrupt testing the counter of the instruction to come
checkInterrupt_early(s, counter, timer, ub) ==
  IF timer = 0
    THEN IF ub = "true" THEN syscall(s, SYS_INDEX) ELSE s
    ELSE IF (counter + 1) % timer = 0 THEN syscall(s, SYS_INDEX) ELSE s

\* checkInterrupt comparing the counter with the timer value
checkInterrupt_exceeds(s, counter, timer, ub) ==
  IF counter >= timer THEN syscall(s, SYS_INDEX) ELSE s

\* checkInterrupt with INT_INDEX for SYS_INDEX
checkInterrupt_intIndex(s, counter, timer, ub) ==
  IF timer = 0
    THEN IF ub = "true" THEN syscall(s, INT_INDEX) ELSE s
    ELSE IF counter % timer = 0 THEN syscall(s, INT_INDEX) ELSE s

checkInterrupt(s, counter, timer, ub) ==
  IF timer = 0
    THEN IF ub = "true" THEN syscall(s, SYS_INDEX) ELSE s
    ELSE IF counter % timer = 0 THEN syscall(s, SYS_INDEX) ELSE s

CheckInterruptStep ==
  /\ phase = "check"
  /\ \E ub \in UBOutcomes :
       LET t == checkInterrupt(St, instruction_counter, interrupt_timer, ub)
           fpe == interrupt_timer = 0 /\ ub = "sigfpe"
       IN /\ Commit(t)
          /\ crashed' = fpe
          /\ phase' = IF fpe THEN "crashed"
                      ELSE IF t.exited THEN "exited" ELSE "fetch"
  /\ UNCHANGED <<interrupt_timer, instruction_counter, chanVars>>

\* CheckInterruptStep with nothing recorded beside the loop
CheckInterrupt == CheckInterruptStep /\ UNCHANGED probe

Next == Fetch \/ Execute \/ CheckInterrupt

vars == <<cpuVars, probe, chanVars>>

Spec == Init /\ [][Next]_vars

\* ------- SpecResume: the execution loop with the last interrupt entry
\* kept beside it: the registers, the saved kernel stack pointer and the
\* instruction counter it found, whether the timer check made it, whether
\* any entry was made yet, and whether an instruction has been executed in
\* User mode since
Snapshot ==
  [registers |-> registers, inactive_sys_stack |-> inactive_sys_stack,
   counter |-> instruction_counter, byTimer |-> phase = "check",
   entered |-> FALSE, userRan |-> FALSE]

InitResume ==
  /\ \E user \in UserPrograms, h \in HandlerPairs :
        memory = Image(user, h[1], h[2])
  /\ interrupt_timer \in 0..MaxTimer
  /\ ProcessorInit
  /\ phase = "fetch"
  /\ probe = Snapshot
  /\ ChanIdle

\* a step that switches to Kernel mode records what it found; a step that
\* executes an instruction in User mode is noted
Track ==
  probe' = IF ~kernelMode /\ kernelMode'
             THEN [Snapshot EXCEPT !.entered = TRUE]
           ELSE IF phase = "execute" /\ ~kernelMode /\ ~exited'
             THEN [probe EXCEPT !.userRan = TRUE]
           ELSE probe

ResumeFetch == FetchStep /\ Track

ResumeExecute == ExecuteStep /\ Track

ResumeCheckInterrupt == CheckInterruptStep /\ Track

NextResume == ResumeFetch \/ ResumeExecute \/ ResumeCheckInterrupt

SpecResume == InitResume /\ [][NextResume]_vars

\* ------- SpecCall: the execution loop on programs that call with
\* JUMP_RETURN, with every call made so far kept beside it: the address p
\* of its opcode, SP before it and the mode
CallImages ==
  { Image(<<JUMP_RETURN, 4, END, 0, INCX, RETURN>>,
          <<SYSRETURN>>, <<SYSRETURN>>),
    Image(<<JUMP_RETURN, 3, END, JUMP_RETURN, 7, RETURN, 0, INCX, RETURN>>,
          <<SYSRETURN>>, <<SYSRETURN>>),
    Image(<<JUMP_RETURN, 3, END, LOAD_VAL, 8, STORE, SYS_INDEX - 1, RETURN,
            END>>,
          <<SYSRETURN>>, <<SYSRETURN>>),
    Image(<<JUMP_RETURN, 3, END, POP, PUSH, RETURN>>,
          <<SYSRETURN>>, <<SYSRETURN>>),
    Image(<<JUMP_RETURN, 3, END, POP, INCX, PUSH, PUSH, RETURN>>,
          <<SYSRETURN>>, <<SYSRETURN>>),
    Image(<<LOAD_VAL, 0, COPY_TO_SP, JUMP_RETURN, 6, END, RETURN>>,
          <<SYSRETURN>>, <<SYSRETURN>>),
    Image(<<INCX, INCX, END>>,
          <<JUMP_RETURN, SYS_INDEX + 3, SYSRETURN, INCX, RETURN>>,
          <<SYSRETURN>>) }

InitCall ==
  /\ memory \in CallImages
  /\ interrupt_timer \in 0..MaxTimer
  /\ ProcessorInit
  /\ phase = "fetch"
  /\ probe = {}
  /\ ChanIdle

\* a JUMP_RETURN that has run to its end is added to the calls made
TrackCall ==
  probe' = IF phase = "execute" /\ registers[IR] = JUMP_RETURN /\ ~exited'
             THEN probe \cup {[p |-> registers[PC] - 1, sp |-> registers[SP],
                               kernel |-> kernelMode]}
             ELSE probe

CallFetch == FetchStep /\ TrackCall

CallExecute == ExecuteStep /\ TrackCall

CallCheckInterrupt == CheckInterruptStep /\ TrackCall

NextCall == CallFetch \/ CallExecute \/ CallCheckInterrupt

SpecCall == InitCall /\ [][NextCall]_vars

\* the image of the first user program with the shortest handlers
TestImage ==
  Image(<<LOAD_VAL, 5, STORE, 10, LOAD_ADDR, 10, PUT, 1, END>>,
        <<SYSRETURN>>, <<SYSRETURN>>)

\* ------------------------------------------- SpecAccess: verifyAccess
\* addresses from AddrMargin below 0 to AddrMargin above the last cell
AddrMargin == 2
AccessAddresses == (0 - AddrMargin)..(MEMORY_SIZE - 1 + AddrMargin)
AccessValues == {1337}

InitAccess ==
  /\ memory = TestImage
  /\ interrupt_timer = 1
  /\ ProcessorInit
  /\ phase = "access"
  /\ probe \in AccessAddresses
  /\ ChanIdle

\* the mode is set as syscall and return_syscall set it
AccessMode ==
  /\ phase = "access"
  /\ kernelMode' = TRUE
  /\ interruptEnabledFlag' = FALSE
  /\ phase' = "access_kernel"
  /\ UNCHANGED <<registers, inactive_sys_stack, inactive_proc_stack,
                 interrupt_timer, instruction_counter, memory, memAlive,
                 exited, exitCode, crashed, output, sent, probe, chanVars>>

\* readMemory(probe)
AccessRead ==
  /\ phase \in {"access", "access_kernel"}
  /\ Commit(readMemory(St, probe).s)
  /\ phase' = "accessed"
  /\ UNCHANGED <<interrupt_timer, instruction_counter, crashed, probe, chanVars>>

\* writeMemory(probe, v)
AccessWrite ==
  /\ phase \in {"access", "access_kernel"}
  /\ \E v \in AccessValues : Commit(writeMemory(St, probe, v))
  /\ phase' = "accessed"
  /\ UNCHANGED <<interrupt_timer, instruction_counter, crashed, probe, chanVars>>

NextAccess == AccessMode \/ AccessRead \/ AccessWrite

SpecAccess == InitAccess /\ [][NextAccess]_vars

\* ---------------- SpecFrame: pushRegistersOnStack / popRegistersOnStack
FrameSPs ==
  {4, 5, 6, SYS_INDEX - 1, SYS_INDEX, SYS_INDEX + 1, SYS_INDEX + 4,
   SYS_INDEX + 5, SYS_INDEX + 6, INT_INDEX, MEMORY_SIZE - 1, MEMORY_SIZE,
   MEMORY_SIZE + 1}
FrameValues == {0, 20}
OverwriteValues == {99}

InitFrame ==
  /\ memory = TestImage
  /\ interrupt_timer = 1
  /\ ProcessorInit
  /\ phase = "frame"
  /\ probe \in { [i \in 0..(REGCOUNT - 1) |->
                   IF i = SP THEN sp ELSE IF i = AC THEN ac
                   ELSE IF i = PC THEN pc ELSE 10 * i] :
                 sp \in FrameSPs, ac \in FrameValues, pc \in FrameValues }
  /\ ChanIdle

\* debugProgram: the registers are set, kernelMode as drawn
FrameSet ==
  /\ phase = "frame"
  /\ \E k \in BOOLEAN : kernelMode' = k /\ interruptEnabledFlag' = ~k
  /\ registers' = probe
  /\ phase' = "set"
  /\ UNCHANGED <<inactive_sys_stack, inactive_proc_stack,
                 interrupt_timer, instruction_counter, memory, memAlive,
                 exited, exitCode, crashed, output, sent, probe, chanVars>>

\* pushRegistersOnStack()
FramePush ==
  /\ phase = "set"
  /\ LET t == pushRegistersOnStack(St)
     IN Commit(t) /\ phase' = IF t.exited THEN "exited" ELSE "pushed"
  /\ UNCHANGED <<interrupt_timer, instruction_counter, crashed, probe, chanVars>>

\* debugProgram: the registers other than SP are overwritten
FrameOverwrite ==
  /\ phase = "pushed"
  /\ \E v \in OverwriteValues :
       registers' = [i \in 0..(REGCOUNT - 1) |->
                       IF i = SP THEN registers[SP] ELSE v - i]
  /\ phase' = "overwritten"
  /\ UNCHANGED <<kernelMode, interruptEnabledFlag, inactive_sys_stack,
                 inactive_proc_stack, interrupt_timer, instruction_counter,
                 memory, memAlive, exited, exitCode, crashed, output, sent,
                 probe, chanVars>>

\* popRegistersOnStack()
FramePop ==
  /\ phase \in {"pushed", "overwritten"}
  /\ LET t == popRegistersOnStack(St)
     IN Commit(t) /\ phase' = IF t.exited THEN "exited" ELSE "popped"
  /\ UNCHANGED <<interrupt_timer, instruction_counter, crashed, probe, chanVars>>

NextFrame == FrameSet \/ FramePush \/ FrameOverwrite \/ FramePop

SpecFrame == InitFrame /\ [][NextFrame]_vars

\* ------------------------------------ SpecStack: pushStack / popStack
\* at most MaxStackOps calls of pushStack and popStack are made in a row
MaxStackOps == 3
StackSPs ==
  {0, 1, 2, SYS_INDEX - 1, SYS_INDEX + 1, SYS_INDEX + 2, MEMORY_SIZE - 1,
   MEMORY_SIZE + 1}
StackValues == {7, 1337}

\* beside the machine: the last call, its argument, SP before it, what it
\* returned, the number of calls, and whether SP is still as run_processor
\* and syscall set it
InitStack ==
  /\ memory = TestImage
  /\ interrupt_timer = 1
  /\ ProcessorInit
  /\ phase = "stack"
  /\ probe = [op |-> "none", value |-> 0, sp |-> 0, result |-> 0,
              count |-> 0, initial |-> TRUE]
  /\ ChanIdle

\* registers[SP] is assigned, as COPY_TO_SP assigns it
StackSet ==
  /\ phase = "stack" /\ probe.count = 0 /\ probe.initial
  /\ \E sp \in StackSPs : registers' = [registers EXCEPT ![SP] = sp]
  /\ probe' = [probe EXCEPT !.initial = FALSE]
  /\ UNCHANGED <<kernelMode, interruptEnabledFlag, inactive_sys_stack,
                 inactive_proc_stack, interrupt_timer, instruction_counter,
                 memory, memAlive, exited, exitCode, crashed, output, sent,
                 phase, chanVars>>

\* the mode and the stack pointers are switched as syscall switches them
StackSwitch ==
  /\ phase = "stack" /\ probe.count = 0 /\ probe.initial /\ ~kernelMode
  /\ kernelMode' = TRUE
  /\ interruptEnabledFlag' = FALSE
  /\ inactive_proc_stack' = registers[SP]
  /\ registers' = [registers EXCEPT ![SP] = inactive_sys_stack]
  /\ UNCHANGED <<inactive_sys_stack, interrupt_timer, instruction_counter,
                 memory, memAlive, exited, exitCode, crashed, output, sent,
                 phase, probe, chanVars>>

\* pushStack(value)
StackPush ==
  /\ phase = "stack" /\ probe.count < MaxStackOps
  /\ \E value \in StackValues :
       LET t == pushStack(St, value)
       IN /\ Commit(t)
          /\ phase' = IF t.exited THEN "exited" ELSE "stack"
          /\ probe' = [probe EXCEPT !.op = "push", !.value = value,
                                    !.sp = registers[SP],
                                    !.count = @ + 1]
  /\ UNCHANGED <<interrupt_timer, instruction_counter, crashed, chanVars>>

\* popStack()
StackPop ==
  /\ phase = "stack" /\ probe.count < MaxStackOps
  /\ LET t == popStack(St)
     IN /\ Commit(t.s)
        /\ phase' = IF t.s.exited THEN "exited" ELSE "stack"
        /\ probe' = [probe EXCEPT !.op = "pop", !.result = t.v,
                                  !.count = @ + 1]
  /\ UNCHANGED <<interrupt_timer, instruction_counter, crashed, chanVars>>

NextStack == StackSet \/ StackSwitch \/ StackPush \/ StackPop

SpecStack == InitStack /\ [][NextStack]_vars

\* ------- SpecChan: readMemory / writeMemory against signalhandler,
\* one action per system call of either process
\* the processor makes at most MaxCalls calls
MaxCalls == 3
ChanAddresses == {-1, 10, 11, MEMORY_SIZE - 1, MEMORY_SIZE}
ChanValues == {7, 1337}

InitChan ==
  /\ memory = TestImage
  /\ interrupt_timer = 1
  /\ ProcessorInit
  /\ phase = "chan"
  /\ probe = 0
  /\ writeToMem = <<>>
  /\ readFromMem = <<>>
  /\ sigint = FALSE
  /\ ppc = "p_idle"
  /\ call = [kind |-> READ, address |-> 0, value |-> 0, status |-> 0,
             result |-> 0]
  /\ mpc = "m_pause"
  /\ hloc = [action |-> 0, address |-> 0, value |-> 0, returnCode |-> 0]
  /\ calls = 0
  /\ shadow = [a \in ChanAddresses \cap (0..(MEMORY_SIZE - 1)) |-> TestImage[a]]

cpuRest == <<registers, inactive_sys_stack, inactive_proc_stack,
             interrupt_timer, instruction_counter, crashed, output, sent,
             phase, probe>>

\* syscall / return_syscall between two memory accesses: the mode changes
PModeSwitch ==
  /\ ppc = "p_idle" /\ calls < MaxCalls
  /\ kernelMode' = ~kernelMode
  /\ interruptEnabledFlag' = kernelMode
  /\ UNCHANGED <<cpuRest, memory, memAlive, exited, exitCode, chanVars>>

\* readMemory(a) or writeMemory(a, v) is called: verifyAccess(a)
PCall ==
  /\ ppc = "p_idle" /\ calls < MaxCalls
  /\ \E kind \in {READ, WRITE}, a \in ChanAddresses, v \in ChanValues :
       /\ kind = READ => v = 7
       /\ call' = [kind |-> kind, address |-> a,
                   value |-> IF kind = WRITE THEN v ELSE 0,
                   status |-> 0, result |-> 0]
       /\ LET denied == verifyAccess(a, kernelMode)
          IN IF denied # <<>>
               THEN /\ memAlive' = FALSE
                    /\ exited' = TRUE
                    /\ exitCode' = denied[1]
                    /\ ppc' = "p_exit"
               ELSE /\ UNCHANGED <<memAlive, exited, exitCode>>
                    /\ ppc' = "p_w_action"
  /\ UNCHANGED <<cpuRest, kernelMode, interruptEnabledFlag, memory,
                 writeToMem, readFromMem, sigint, mpc, hloc, calls, shadow>>

\* write(writeToMem[1], &action, sizeof(int))
PWriteAction ==
  /\ ppc = "p_w_action"
  /\ writeToMem' = Append(writeToMem, call.kind)
  /\ ppc' = "p_w_addr"
  /\ UNCHANGED <<cpuRest, kernelMode, interruptEnabledFlag, memory, memAlive,
                 exited, exitCode, readFromMem, sigint, call, mpc, hloc,
                 calls, shadow>>

\* where the caller goes after the address: writeMemory writes the value
afterAddress(kind) == IF kind = WRITE THEN "p_w_value" ELSE "p_kill"

\* write(writeToMem[1], &address, sizeof(int))
PWriteAddress ==
  /\ ppc = "p_w_addr"
  /\ writeToMem' = Append(writeToMem, call.address)
  /\ ppc' = afterAddress(call.kind)
  /\ UNCHANGED <<cpuRest, kernelMode, interruptEnabledFlag, memory, memAlive,
                 exited, exitCode, readFromMem, sigint, call, mpc, hloc,
                 calls, shadow>>

\* write(writeToMem[1], &value, sizeof(int))
PWriteValue ==
  /\ ppc = "p_w_value"
  /\ writeToMem' = Append(writeToMem, call.value)
  /\ ppc' = "p_kill"
  /\ UNCHANGED <<cpuRest, kernelMode, interruptEnabledFlag, memory, memAlive,
                 exited, exitCode, readFromMem, sigint, call, mpc, hloc,
                 calls, shadow>>

\* kill(process[MAIN_MEMORY], SIGINT)
PKill ==
  /\ ppc = "p_kill"
  /\ sigint' = TRUE
  /\ ppc' = "p_r_status"
  /\ UNCHANGED <<cpuRest, kernelMode, interruptEnabledFlag, memory, memAlive,
                 exited, exitCode, writeToMem, readFromMem, call, mpc, hloc,
                 calls, shadow>>

\* readMemory returning on the status, the value left in the pipe
afterStatus_noValue(kind, status) ==
  IF status # SUCCESS THEN "p_exit" ELSE "p_idle"

\* where the caller goes after the status: readMemory reads the value,
\* writeMemory returns, a failure ends the process
afterStatus(kind, status) ==
  IF status # SUCCESS THEN "p_exit"
  ELSE IF kind = READ THEN "p_r_value" ELSE "p_idle"

\* read(readFromMem[0], &status, sizeof(int)); blocks on an empty pipe
PReadStatus ==
  /\ ppc = "p_r_status"
  /\ readFromMem # <<>>
  /\ LET status == Head(readFromMem)
         to == afterStatus(call.kind, status)
     IN /\ readFromMem' = Tail(readFromMem)
        /\ call' = [call EXCEPT !.status = status]
        /\ ppc' = to
        /\ IF to = "p_exit"
             THEN memAlive' = FALSE /\ exited' = TRUE /\ exitCode' = status
             ELSE UNCHANGED <<memAlive, exited, exitCode>>
        /\ calls' = IF to = "p_idle" THEN calls + 1 ELSE calls
        /\ shadow' = IF to = "p_idle"
                       THEN [shadow EXCEPT ![call.address] = call.value]
                       ELSE shadow
  /\ UNCHANGED <<cpuRest, kernelMode, interruptEnabledFlag, memory,
                 writeToMem, sigint, mpc, hloc>>

\* read(readFromMem[0], &status, sizeof(int)); return status;
PReadValue ==
  /\ ppc = "p_r_value"
  /\ readFromMem # <<>>
  /\ readFromMem' = Tail(readFromMem)
  /\ call' = [call EXCEPT !.result = Head(readFromMem)]
  /\ ppc' = "p_idle"
  /\ calls' = calls + 1
  /\ UNCHANGED <<cpuRest, kernelMode, interruptEnabledFlag, memory, memAlive,
                 exited, exitCode, writeToMem, sigint, mpc, hloc, shadow>>

\* the pending SIGINT is delivered to the main memory in pause(): the
\* handler starts
MDeliver ==
  /\ memAlive /\ sigint /\ mpc = "m_pause"
  /\ sigint' = FALSE
  /\ mpc' = "h_r_action"
  /\ hloc' = [action |-> 0, address |-> 0, value |-> 0, returnCode |-> 0]
  /\ UNCHANGED <<cpuRest, kernelMode, interruptEnabledFlag, memory, memAlive,
                 exited, exitCode, writeToMem, readFromMem, ppc, call, calls,
                 shadow>>

\* read(readpipe[0], &action, sizeof(int))
HReadAction ==
  /\ memAlive /\ mpc = "h_r_action"
  /\ writeToMem # <<>>
  /\ hloc' = [hloc EXCEPT !.action = Head(writeToMem)]
  /\ writeToMem' = Tail(writeToMem)
  /\ mpc' = "h_r_addr"
  /\ UNCHANGED <<cpuRest, kernelMode, interruptEnabledFlag, memory, memAlive,
                 exited, exitCode, readFromMem, sigint, ppc, call, calls,
                 shadow>>

\* signalhandler answering the failed WRITE with the code of the failed READ
handlerBranch_readCode(action, address) ==
  LET inRange == address >= 0 /\ address < MEMORY_SIZE
  IN IF action = READ
       THEN IF inRange THEN [pc |-> "h_w_status", returnCode |-> SUCCESS]
            ELSE [pc |-> "h_w_status", returnCode |-> READ_FAILURE]
     ELSE IF action = WRITE
       THEN IF inRange THEN [pc |-> "h_r_value", returnCode |-> 0]
            ELSE [pc |-> "h_w_status", returnCode |-> READ_FAILURE]
     ELSE [pc |-> "h_w_status", returnCode |-> INVALID_MEM_ACTION]

\* the branch of signalhandler after the address is read: where it goes
\* and the return code it has set
handlerBranch(action, address) ==
  LET inRange == address >= 0 /\ address < MEMORY_SIZE
  IN IF action = READ
       THEN IF inRange THEN [pc |-> "h_w_status", returnCode |-> SUCCESS]
            ELSE [pc |-> "h_w_status", returnCode |-> READ_FAILURE]
     ELSE IF action = WRITE
       THEN IF inRange THEN [pc |-> "h_r_value", returnCode |-> 0]
            ELSE [pc |-> "h_w_status", returnCode |-> WRITE_FAILURE]
     ELSE [pc |-> "h_w_status", returnCode |-> INVALID_MEM_ACTION]

\* read(readpipe[0], &address, sizeof(int)) and the tests on action
HReadAddress ==
  /\ memAlive /\ mpc = "h_r_addr"
  /\ writeToMem # <<>>
  /\ LET b == handlerBranch(hloc.action, Head(writeToMem))
     IN /\ hloc' = [hloc EXCEPT !.address = Head(writeToMem),
                                !.returnCode = b.returnCode]
        /\ mpc' = b.pc
  /\ writeToMem' = Tail(writeToMem)
  /\ UNCHANGED <<cpuRest, kernelMode, interruptEnabledFlag, memory, memAlive,
                 exited, exitCode, readFromMem, sigint, ppc, call, calls,
                 shadow>>

\* memory[address] = address
store_address(mem, address, value) == [mem EXCEPT ![address] = address]

\* memory[address] = value
store(mem, address, value) == [mem EXCEPT ![address] = value]

\* read(readpipe[0], &value, sizeof(int)); memory[address] = value;
HReadValue ==
  /\ memAlive /\ mpc = "h_r_value"
  /\ writeToMem # <<>>
  /\ hloc' = [hloc EXCEPT !.value = Head(writeToMem), !.returnCode = SUCCESS]
  /\ writeToMem' = Tail(writeToMem)
  /\ memory' = store(memory, hloc.address, Head(writeToMem))
  /\ mpc' = "h_w_status"
  /\ UNCHANGED <<cpuRest, kernelMode, interruptEnabledFlag, memAlive,
                 exited, exitCode, readFromMem, sigint, ppc, call, calls,
                 shadow>>

\* write(writepipe[1], &returnCode, sizeof(int))
HWriteStatus ==
  /\ memAlive /\ mpc = "h_w_status"
  /\ readFromMem' = Append(readFromMem, hloc.returnCode)
  /\ mpc' = IF hloc.action = READ /\ hloc.returnCode = SUCCESS
              THEN "h_w_value" ELSE "m_pause"
  /\ UNCHANGED <<cpuRest, kernelMode, interruptEnabledFlag, memory, memAlive,
                 exited, exitCode, writeToMem, sigint, ppc, call, hloc, calls,
                 shadow>>

\* write(writepipe[1], &memory[address], sizeof(int))
HWriteValue ==
  /\ memAlive /\ mpc = "h_w_value"
  /\ readFromMem' = Append(readFromMem, memory[hloc.address])
  /\ mpc' = "m_pause"
  /\ UNCHANGED <<cpuRest, kernelMode, interruptEnabledFlag, memory, memAlive,
                 exited, exitCode, writeToMem, sigint, ppc, call, hloc, calls,
                 shadow>>

NextChan ==
  \/ PModeSwitch \/ PCall \/ PWriteAction \/ PWriteAddress \/ PWriteValue
  \/ PKill \/ PReadStatus \/ PReadValue
  \/ MDeliver \/ HReadAction \/ HReadAddress \/ HReadValue \/ HWriteStatus
  \/ HWriteValue

SpecChan == InitChan /\ [][NextChan]_vars

\* ------- SpecStore: signalhandler against a caller that checks nothing
\* the action words the caller may write: READ, WRITE and a word that is
\* no mem_code
RawKinds == {READ, WRITE, WRITE + 1}

\* the request sequence of readMemory / writeMemory entered without
\* verifyAccess, with any action word and any address
RawCall ==
  /\ ppc = "p_idle" /\ calls < MaxCalls
  /\ \E kind \in RawKinds, a \in ChanAddresses, v \in ChanValues :
       /\ kind # WRITE => v = 7
       /\ call' = [kind |-> kind, address |-> a,
                   value |-> IF kind = WRITE THEN v ELSE 0,
                   status |-> 0, result |-> 0]
  /\ ppc' = "p_w_action"
  /\ UNCHANGED <<cpuRest, kernelMode, interruptEnabledFlag, memory, memAlive,
                 exited, exitCode, writeToMem, readFromMem, sigint, mpc, hloc,
                 calls, shadow>>

NextStore ==
  \/ RawCall \/ PWriteAction \/ PWriteAddress \/ PWriteValue
  \/ PKill \/ PReadStatus \/ PReadValue
  \/ MDeliver \/ HReadAction \/ HReadAddress \/ HReadValue \/ HWriteStatus
  \/ HWriteValue

SpecStore == InitChan /\ [][NextStore]_vars

\* ------- SpecBoot: main from its command line to the execution loop
\* <timer_value> as stoi reads it: in base 10 at the check of the argument,
\* in base 0 (a leading 0 means octal) where the timer is taken from it.
\* The last one is "08": 8 in base 10, and 0 in base 0, where the 8 is no
\* octal digit.
TimerArgs ==
  { [base10 |-> n, base0 |-> n] : n \in (0 - 1)..MaxTimer }
    \cup { [base10 |-> 8, base0 |-> 0] }

\* one line of a program file, as the loader classifies it: a number to
\* load, a '.' with the digits after it (none: <<>>), or a comment
LoadLine(n) == [operation |-> "LOAD", digits |-> <<n>>]
JumpLine(digits) == [operation |-> "JUMP_AHEAD", digits |-> digits]
SkipLine == [operation |-> "SKIP", digits |-> <<>>]

\* the lines of the program file that loads user at 0, timerH at 1000 and
\* sysH at 1500
FileLines(user, timerH, sysH) ==
  [i \in 1..Len(user) |-> LoadLine(user[i])]
    \o <<SkipLine, JumpLine(<<SYS_INDEX>>)>>
    \o [i \in 1..Len(timerH) |-> LoadLine(timerH[i])]
    \o <<JumpLine(<<INT_INDEX>>)>>
    \o [i \in 1..Len(sysH) |-> LoadLine(sysH[i])]

\* <program_file>: whether fopen(path, "r") opens it, whether
\* fstream::open (in | out) opens it, and its lines.  A read-only file and
\* a directory are opened by the first and not by the second.
ProgramFiles ==
  { [exists |-> TRUE, opens |-> TRUE,
     lines |-> FileLines(<<LOAD_VAL, 5, STORE, 10, LOAD_ADDR, 10, PUT, 1, END>>,
                         <<>>, <<>>)],
    [exists |-> TRUE, opens |-> TRUE,
     lines |-> FileLines(<<INCX, SYSCALL, INCX, END>>, <<SYSRETURN>>,
                         <<LOAD_VAL, 7, COPY_TO_X, SYSRETURN>>)],
    [exists |-> TRUE, opens |-> TRUE,
     lines |-> <<LoadLine(INCX), JumpLine(<<>>), LoadLine(END)>>],
    [exists |-> TRUE, opens |-> FALSE, lines |-> <<LoadLine(END)>>],
    [exists |-> FALSE, opens |-> FALSE, lines |-> <<>>] }

\* the while loop of run_main_memory over the lines left, the next number
\* going to address: stoi of no digits throws, the catch leaves success 0
RECURSIVE loadLines(_, _, _)
loadLines(mem, address, lines) ==
  IF lines = <<>> THEN [memory |-> mem, success |-> 1]
  ELSE LET line == Head(lines)
       IN IF line.operation = "JUMP_AHEAD"
            THEN IF line.digits = <<>>
                   THEN [memory |-> mem, success |-> 0]
                   ELSE loadLines(mem, line.digits[1], Tail(lines))
          ELSE IF line.operation = "LOAD"
            THEN loadLines([mem EXCEPT ![address] = line.digits[1]],
                           address + 1, Tail(lines))
          ELSE loadLines(mem, address, Tail(lines))

\* main is entered: one process, its globals zero
InitBoot ==
  /\ registers = [i \in 0..(REGCOUNT - 1) |-> 0]
  /\ kernelMode = FALSE
  /\ interruptEnabledFlag = FALSE
  /\ inactive_sys_stack = 0
  /\ inactive_proc_stack = 0
  /\ interrupt_timer = 0
  /\ instruction_counter = 0
  /\ memory = [a \in 0..(MEMORY_SIZE - 1) |-> 0]
  /\ memAlive = FALSE
  /\ exited = FALSE
  /\ exitCode = 0
  /\ crashed = FALSE
  /\ output = <<>>
  /\ sent = <<>>
  /\ phase = "main"
  /\ probe \in [timer : TimerArgs, file : ProgramFiles, loadSuccess : {0}]
  /\ writeToMem = <<>>
  /\ readFromMem = <<>>
  /\ sigint = FALSE
  /\ ppc = "p_idle"
  /\ call = [kind |-> READ, address |-> 0, value |-> 0, status |-> 0,
             result |-> 0]
  /\ mpc = "m_none"
  /\ hloc = [action |-> 0, address |-> 0, value |-> 0, returnCode |-> 0]
  /\ calls = 0
  /\ shadow = <<>>

\* main: the checks of the command line.  Each failed check ends in
\* "throw;" with no exception in flight, which is std::terminate.
MainArgs ==
  /\ phase = "main"
  /\ IF probe.timer.base10 < 0 \/ ~probe.file.exists
       THEN phase' = "aborted" /\ crashed' = TRUE
       ELSE phase' = "fork" /\ crashed' = crashed
  /\ UNCHANGED <<registers, kernelMode, interruptEnabledFlag,
                 inactive_sys_stack, inactive_proc_stack, interrupt_timer,
                 instruction_counter, memory, memAlive, exited, exitCode,
                 output, sent, probe, chanVars>>

\* main: pipe(), pipe(), fork(): the main memory process exists
MainFork ==
  /\ phase = "fork"
  /\ memAlive' = TRUE
  /\ mpc' = "m_load"
  /\ phase' = "handshake"
  /\ UNCHANGED <<registers, kernelMode, interruptEnabledFlag,
                 inactive_sys_stack, inactive_proc_stack, interrupt_timer,
                 instruction_counter, memory, exited, exitCode, crashed,
                 output, sent, probe, writeToMem, readFromMem, sigint, ppc,
                 call, hloc, calls, shadow>>

\* run_main_memory up to pause(): the file is loaded and the flag written.
\* A file that does not open ends in "throw;" with no exception in
\* flight: std::terminate, the flag is never written.
MLoad ==
  /\ mpc = "m_load" /\ memAlive
  /\ IF ~probe.file.opens
       THEN /\ memAlive' = FALSE
            /\ mpc' = "m_aborted"
            /\ UNCHANGED <<memory, readFromMem>>
       ELSE LET r == loadLines(memory, 0, probe.file.lines)
            IN /\ memory' = r.memory
               /\ readFromMem' = Append(readFromMem, r.success)
               /\ mpc' = "m_pause"
               /\ memAlive' = memAlive
  /\ UNCHANGED <<cpuRest, kernelMode, interruptEnabledFlag, exited, exitCode,
                 writeToMem, sigint, ppc, call, hloc, calls, shadow>>

\* main: if(!loadSuccess)
loadFailed(loadSuccess) == loadSuccess = 0

\* main: the flag is read; on failure return FILE_PARSE_FAILURE, else
\* run_processor up to the call of run_execution_cycle
MainHandshake ==
  /\ phase = "handshake"
  /\ readFromMem # <<>>
  /\ readFromMem' = Tail(readFromMem)
  /\ probe' = [probe EXCEPT !.loadSuccess = Head(readFromMem)]
  /\ IF loadFailed(Head(readFromMem))
       THEN /\ exited' = TRUE
            /\ exitCode' = FILE_PARSE_FAILURE
            /\ phase' = "exited"
            /\ UNCHANGED <<registers, kernelMode, interruptEnabledFlag,
                           inactive_sys_stack, inactive_proc_stack,
                           interrupt_timer, instruction_counter>>
       ELSE /\ interrupt_timer' = probe.timer.base0
            /\ registers' = [registers EXCEPT ![PC] = 0, ![SP] = SYS_INDEX]
            /\ inactive_sys_stack' = MEMORY_SIZE
            /\ inactive_proc_stack' = SYS_INDEX
            /\ instruction_counter' = 0
            /\ interruptEnabledFlag' = TRUE
            /\ kernelMode' = FALSE
            /\ phase' = "fetch"
            /\ UNCHANGED <<exited, exitCode>>
  /\ UNCHANGED <<memory, memAlive, crashed, output, sent, writeToMem, sigint,
                 ppc, call, mpc, hloc, calls, shadow>>

NextBoot ==
  \/ MainArgs \/ MainFork \/ MLoad \/ MainHandshake
  \/ Fetch \/ Execute \/ CheckInterrupt

SpecBoot == InitBoot /\ [][NextBoot]_vars

\* ------- SpecScenario: the execution loop on one program file
\* timer values given on the command line with this file: 0 .. MaxScenarioTimer
MaxScenarioTimer == 8

\* the program file of numbers loaded from address 0 on, no handler
ScenarioProgram == <<LOAD_VAL, 5, STORE, 10, LOAD_ADDR, 10, PUT, 1, END>>

InitScenario ==
  /\ memory = Image(ScenarioProgram, <<>>, <<>>)
  /\ interrupt_timer \in 0..MaxScenarioTimer
  /\ ProcessorInit
  /\ phase = "fetch"
  /\ probe = 0
  /\ ChanIdle

SpecScenario == InitScenario /\ [][Next]_vars

\* ------------------------------------------------------------ the claims
UserRegion == 0..(SYS_INDEX - 1)
KernelRegion == SYS_INDEX..(MEMORY_SIZE - 1)

\* the request q was sent in a mode that may access its address
Allowed(q) ==
  IF q.kernel THEN q.address \in KernelRegion ELSE q.address \in UserRegion

\* the memory after the WRITE requests of log, in order, applied to mem
RECURSIVE ApplyWrites(_, _)
ApplyWrites(mem, log) ==
  IF log = <<>> THEN mem
  ELSE LET q == Head(log)
       IN ApplyWrites(IF q.kind = WRITE
                        THEN [mem EXCEPT ![q.address] = q.value] ELSE mem,
                      Tail(log))

\* C1: every READ or WRITE request of every step of the execution loop
\* (fetches, operands, pushes, pops, the frame of interrupt entry and of
\* SYSRETURN) carries an address the mode in force when it is sent allows,
\* and the memory changes only by those WRITE requests: no kernel cell
\* changes in User mode, no user cell in Kernel mode.
C1_RequestsAllowed ==
  [][ /\ \A i \in 1..Len(sent') : Allowed(sent'[i])
      /\ memory' = ApplyWrites(memory, sent') ]_vars

\* an interrupt entry has just written its five frame cells in Kernel mode
\* and a denied access has not been sent
C1_Witness ==
  /\ kernelMode /\ ~exited
  /\ Len(sent) = REGCOUNT - 1
  /\ \A i \in 1..Len(sent) :
       sent[i].kind = WRITE /\ sent[i].kernel /\ sent[i].address >= SYS_INDEX

\* the timer check finds the counter at a multiple of the timer value
TimerDue ==
  /\ interrupt_timer > 0
  /\ instruction_counter > 0
  /\ instruction_counter % interrupt_timer = 0

\* the step switches from User to Kernel mode
ModeSwitch == ~kernelMode /\ kernelMode'

\* the step leaves the whole machine state alone and sends nothing
MachineUnchanged ==
  /\ UNCHANGED <<registers, kernelMode, interruptEnabledFlag,
                 inactive_sys_stack, inactive_proc_stack, memory, output>>
  /\ sent' = <<>>
  /\ ~exited'

EntryStep ==
  /\ ~kernelMode /\ interruptEnabledFlag
  /\ \/ phase = "execute" /\ registers[IR] = SYSCALL
     \/ phase = "check" /\ TimerDue
     \/ phase = "check" /\ interrupt_timer = 0 /\ kernelMode'

\* the handler address of the entry of this step
EntryHandler == IF phase = "execute" THEN INT_INDEX ELSE SYS_INDEX

\* C4: interrupt entry from User mode with SP = u and saved kernel SP = k,
\* k-5..k-1 kernel cells: saved user SP = u, SP = k-5, cells k-1..k-5 hold
\* the old PC, IR, AC, X, Y, mode Kernel, interrupts disabled, PC = h, the
\* other registers unchanged, no halt.
C4_InterruptEntry ==
  [][ ( /\ EntryStep
        /\ inactive_sys_stack - (REGCOUNT - 1) >= SYS_INDEX
        /\ inactive_sys_stack <= MEMORY_SIZE ) =>
      LET u == registers[SP]
          k == inactive_sys_stack
      IN /\ ~exited'
         /\ inactive_proc_stack' = u
         /\ inactive_sys_stack' = k
         /\ registers'[SP] = k - 5
         /\ memory'[k - 1] = registers[PC]
         /\ memory'[k - 2] = registers[IR]
         /\ memory'[k - 3] = registers[AC]
         /\ memory'[k - 4] = registers[X]
         /\ memory'[k - 5] = registers[Y]
         /\ kernelMode' /\ ~interruptEnabledFlag'
         /\ registers'[PC] = EntryHandler
         /\ \A r \in {IR, AC, X, Y} : registers'[r] = registers[r] ]_vars

\* the machine has just entered the system-call handler from a user
\* program whose registers were not all zero
C4_Witness ==
  /\ phase = "check" /\ kernelMode /\ ~exited
  /\ registers[PC] = INT_INDEX
  /\ registers[SP] = MEMORY_SIZE - (REGCOUNT - 1)
  /\ registers[X] > 0
  /\ memory[MEMORY_SIZE - 4] = registers[X]

\* SYSRETURN is executed by this step in Kernel mode
KernelReturnStep ==
  phase = "execute" /\ registers[IR] = SYSRETURN /\ kernelMode

\* the effect of return_syscall with SP = s
ReturnEffect ==
  LET s == registers[SP]
  IN /\ ~exited'
     /\ registers'[PC] = memory[s + 4]
     /\ registers'[IR] = memory[s + 3]
     /\ registers'[AC] = memory[s + 2]
     /\ registers'[X] = memory[s + 1]
     /\ registers'[Y] = memory[s]
     /\ inactive_sys_stack' = s + 5
     /\ registers'[SP] = inactive_proc_stack
     /\ ~kernelMode' /\ interruptEnabledFlag'
     /\ memory' = memory

\* C5 as stated: SYSRETURN in Kernel mode with any SP = s restores the
\* registers from s+4..s and switches the stacks and the mode.
C5_Original == [][ KernelReturnStep => ReturnEffect ]_vars

\* C5 as amended: SYSRETURN in Kernel mode with SP = s and s..s+4 kernel
\* cells restores PC, IR, AC, X, Y from s+4, s+3, s+2, s+1, s, then sets
\* saved kernel SP = s+5, SP = saved user SP, mode User, interrupts
\* enabled; with a cell of s..s+4 outside the kernel region the machine
\* halts on the access violation, still in Kernel mode, the saved kernel
\* SP as it was.
C5_Return ==
  [][ KernelReturnStep =>
        IF /\ registers[SP] >= SYS_INDEX
           /\ registers[SP] + (REGCOUNT - 2) < MEMORY_SIZE
          THEN ReturnEffect
          ELSE /\ exited'
               /\ exitCode' \in {MEMORY_OUT_OF_BOUNDS, USER_MEM_ACCESS_DENIED}
               /\ kernelMode' /\ ~interruptEnabledFlag'
               /\ inactive_sys_stack' = inactive_sys_stack ]_vars

\* a handler that changed AC, X and Y has just returned: the registers are
\* those of the user program again
C5_Witness ==
  /\ phase = "check" /\ ~kernelMode /\ ~exited
  /\ registers[IR] = SYSCALL
  /\ registers[X] = 1
  /\ inactive_sys_stack = MEMORY_SIZE
  /\ memory[MEMORY_SIZE - 4] = 1
  /\ memory[INT_INDEX] = LOAD_VAL

\* syscall(h) is invoked by this step in Kernel mode
KernelTriggerStep ==
  /\ kernelMode
  /\ \/ phase = "execute" /\ registers[IR] = SYSCALL
     \/ phase = "check" /\ TimerDue

\* C6: an interrupt raised in Kernel mode, by the timer check or by a
\* SYSCALL instruction, changes no register, shadow pointer, flag or memory
\* cell and sends no request; nothing is kept for later: the mode switches
\* only in a step that raises an interrupt in User mode.
C6_KernelDrop ==
  [][ /\ KernelTriggerStep => MachineUnchanged
      /\ ModeSwitch => EntryStep ]_vars

\* a SYSCALL instruction has just been executed inside a handler
C6_Witness ==
  /\ phase = "check" /\ kernelMode /\ ~exited
  /\ registers[IR] = SYSCALL
  /\ registers[PC] \notin {SYS_INDEX, INT_INDEX}

\* C7: the mode and the interrupt flag are toggled together: at every
\* point of the loop (User, enabled) or (Kernel, disabled).
C7_ModeFlag == kernelMode <=> ~interruptEnabledFlag

\* the machine is back in User mode, interrupts enabled, after a handler
C7_Witness ==
  /\ phase = "fetch" /\ ~kernelMode /\ interruptEnabledFlag
  /\ instruction_counter >= 2
  /\ inactive_proc_stack = registers[SP]
  /\ memory[MEMORY_SIZE - 1] > 0

\* the access of probe in the current mode has gone through: the process
\* lives and the one request was sent
AccessGranted ==
  /\ ~exited
  /\ Len(sent) = 1 /\ sent[1].address = probe /\ sent[1].kernel = kernelMode

\* the access has ended the process with code, before any request
AccessRefused(code) ==
  exited /\ exitCode = code /\ sent = <<>> /\ memory = TestImage

\* C2: for every address a and mode, the access check gives out of bounds
\* if a < 0 or a >= 2000, whatever the mode; else kernel-denied if a >= 1000
\* in User mode; else user-denied if a < 1000 in Kernel mode; else the
\* access is allowed.  [0,1000) is accessible iff User, [1000,2000) iff
\* Kernel.
C2_AccessCheck ==
  phase = "accessed" =>
    /\ IF probe < 0 \/ probe >= 2000 THEN AccessRefused(MEMORY_OUT_OF_BOUNDS)
       ELSE IF probe >= 1000 /\ ~kernelMode
         THEN AccessRefused(KERNEL_MEM_ACCESS_DENIED)
       ELSE IF probe < 1000 /\ kernelMode
         THEN AccessRefused(USER_MEM_ACCESS_DENIED)
       ELSE AccessGranted
    /\ probe \in 0..999 => (AccessGranted <=> ~kernelMode)
    /\ probe \in 1000..1999 => (AccessGranted <=> kernelMode)

\* the last cell has been accessed in Kernel mode
C2_Witness ==
  phase = "accessed" /\ probe = MEMORY_SIZE - 1 /\ kernelMode /\ AccessGranted

\* the five cells below the stack pointer sp are accessible in the mode
FrameAccessible(sp, kernel) ==
  \A a \in (sp - (REGCOUNT - 1))..(sp - 1) : verifyAccess(a, kernel) = <<>>

\* C8: where SP-5..SP-1 are accessible in the current mode, PushFrame
\* followed by PopFrame restores PC, IR, AC, X, Y, overwritten in between
\* or not, and leaves SP as before the push.
C8_FrameRoundTrip ==
  /\ (phase \in {"pushed", "overwritten", "popped", "exited"}
        /\ FrameAccessible(probe[SP], kernelMode)) => ~exited
  /\ phase = "popped" => registers = probe

\* a frame has been pushed on the kernel stack, overwritten and popped
C8_Witness ==
  /\ phase = "popped" /\ kernelMode
  /\ probe[SP] = MEMORY_SIZE
  /\ probe[AC] = 20
  /\ memory[MEMORY_SIZE - 3] = 20
  /\ registers = probe

\* C9 : a completed readMemory(a) returns what the last writeMemory(a, v)
\* before it wrote (the loaded content if there was none), whatever was
\* written elsewhere in between; the memory changes only at the address of
\* the writeMemory in progress, to its value, and that address is one the
\* mode allows.
C9_WriteReadRoundTrip ==
  [][ /\ (ppc = "p_r_value" /\ ppc' = "p_idle") =>
           call'.result = shadow[call.address]
      /\ memory' # memory =>
           /\ call.kind = WRITE
           /\ ppc = "p_r_status"
           /\ Allowed([address |-> call.address, kernel |-> kernelMode])
           /\ memory' = [memory EXCEPT ![call.address] = call.value] ]_vars

\* 1337 was written to address 10, then 7 to address 11, and the read of
\* address 10 has returned 1337
C9_Witness ==
  /\ ppc = "p_idle" /\ calls = 3
  /\ call.kind = READ /\ call.address = 10 /\ call.result = 1337
  /\ memory[10] = 1337 /\ memory[11] = 7

\* the words of the request of the call in progress
RequestOf(c) ==
  IF c.kind = WRITE THEN <<WRITE, c.address, c.value>> ELSE <<READ, c.address>>

\* C10: the two processes alternate.  While the processor writes a
\* request or signals, and between its calls, the response pipe is empty,
\* no signal is pending and the main memory idles; a signal is pending only
\* with the whole request of the current call in the pipe; the handler runs
\* only while the processor waits for its answer, on the request of the
\* current call; and what the processor reads is the answer to that
\* request: the status SUCCESS and, for a READ, the content of the
\* requested address.
C10_Alternation ==
  /\ ppc \in {"p_idle", "p_w_action", "p_w_addr", "p_w_value", "p_kill"} =>
       readFromMem = <<>> /\ ~sigint /\ mpc = "m_pause"
  /\ ppc = "p_idle" => writeToMem = <<>>
  /\ sigint => (mpc = "m_pause" /\ writeToMem = RequestOf(call))
  /\ mpc # "m_pause" => ppc \in {"p_r_status", "p_r_value"}
  /\ mpc \in {"h_r_value", "h_w_status", "h_w_value"} =>
       hloc.action = call.kind /\ hloc.address = call.address
  /\ (ppc = "p_r_status" /\ readFromMem # <<>>) =>
       /\ Head(readFromMem) = SUCCESS
       /\ call.kind = WRITE => memory[call.address] = call.value
  /\ (ppc = "p_r_value" /\ readFromMem # <<>>) =>
       readFromMem = <<memory[call.address]>>
  /\ (ppc = "p_idle" /\ calls > 0 /\ call.kind = READ) =>
       call.result = memory[call.address]

\* the processor has read the status of its third request while the
\* handler has still to write the value
C10_Witness ==
  /\ calls = 2
  /\ ppc = "p_r_value" /\ mpc = "h_w_value"
  /\ readFromMem = <<>>

\* 0 <= addr < 2000
InRange(a) == a >= 0 /\ a < 2000

\* the status the claim gives for the request c
ExpectedStatus(c) ==
  IF c.kind = READ THEN (IF InRange(c.address) THEN SUCCESS ELSE READ_FAILURE)
  ELSE IF c.kind = WRITE
    THEN (IF InRange(c.address) THEN SUCCESS ELSE WRITE_FAILURE)
  ELSE INVALID_MEM_ACTION

\* C11: the main memory checks 0 <= addr < 2000 itself, whatever the
\* caller checked: a READ out of range is answered READ_FAILURE and nothing
\* after it; a WRITE out of range is answered WRITE_FAILURE; an action word
\* that is neither READ nor WRITE is answered INVALID_MEM_ACTION; and the
\* memory changes only on a WRITE in range, at its address, to its value.
C11_StoreChecks ==
  [][ /\ (mpc = "h_w_status" /\ mpc' # "h_w_status") =>
           /\ readFromMem' = <<ExpectedStatus(call)>>
           /\ mpc' = IF call.kind = READ /\ InRange(call.address)
                       THEN "h_w_value" ELSE "m_pause"
      /\ mpc = "h_w_value" => call.kind = READ /\ InRange(call.address)
      /\ memory' # memory =>
           /\ call.kind = WRITE /\ InRange(call.address)
           /\ memory' = [memory EXCEPT ![call.address] = call.value] ]_vars

\* after a WRITE of 1337 to address 10, a WRITE to address 2000 was
\* answered WRITE_FAILURE and the memory is as the first WRITE left it
C11_Witness ==
  /\ ppc = "p_exit" /\ calls = 1
  /\ call.kind = WRITE /\ call.address = MEMORY_SIZE
  /\ call.status = WRITE_FAILURE
  /\ readFromMem = <<>>
  /\ memory = [TestImage EXCEPT ![10] = 1337]

\* C12: when the main memory sends its response it has read every field
\* of the request (READ: kind, address; WRITE: kind, address, value),
\* the address in range or not, and nothing of it is left in the pipe.
C12_Original ==
  mpc = "h_w_status" =>
    /\ writeToMem = <<>>
    /\ hloc.action = call.kind /\ hloc.address = call.address
    /\ call.kind = WRITE => hloc.value = call.value

\* the Processor is in its execution loop
InLoop == phase \in {"fetch", "execute", "check"}

\* C13: once the main memory process exists, no exit of the Processor (END,
\* a fatal error, a failed handshake) leaves it alive.
C13_Original == exited => ~memAlive

\* C14: the main memory sends exactly one flag when it is done with the
\* file, before it serves a request; the Processor sends no request and no
\* signal before it has read the flag, and on a failure flag it exits with
\* FILE_PARSE_FAILURE having sent none.
C14_Original ==
  /\ Len(readFromMem) <= 1
  /\ mpc \in {"m_pause", "m_aborted"} =>
       (readFromMem # <<>> \/ phase # "handshake")
  /\ phase \in {"main", "fork", "handshake"} => sent = <<>> /\ ~sigint
  /\ InLoop => probe.loadSuccess # 0
  /\ (phase = "exited" /\ probe.loadSuccess = 0) =>
       exitCode = FILE_PARSE_FAILURE /\ sent = <<>> /\ ~sigint

\* C15: with a timer value of 0 or less on the command line the execution
\* loop never runs, and the timer check never takes the counter modulo a
\* timer that is 0 or less.
C15_Original ==
  /\ probe.timer.base10 <= 0 => ~InLoop
  /\ phase = "check" => interrupt_timer > 0

\* the instructions of ScenarioProgram in the order of the file
ScenarioOpcodes == <<LOAD_VAL, STORE, LOAD_ADDR, PUT, END>>

\* the machine executes the instructions of the scenario in order and
\* nothing else, and an exit is the exit of END with the results claimed
ScenarioRun ==
  /\ ~crashed
  /\ instruction_counter < Len(ScenarioOpcodes)
  /\ phase = "execute" =>
       registers[IR] = ScenarioOpcodes[instruction_counter + 1]
  /\ instruction_counter >= 1 => registers[AC] = 5
  /\ instruction_counter >= 2 => memory[10] = 5
  /\ output = IF instruction_counter >= 4 THEN << <<"int", 5>> >> ELSE <<>>
  /\ exited =>
       /\ exitCode = SUCCESS
       /\ registers[IR] = END
       /\ instruction_counter = Len(ScenarioOpcodes) - 1
       /\ ~kernelMode

\* C16 as stated: with [1,5,7,10,2,10,9,1,50] at 0 and zero elsewhere the
\* machine executes LOAD_VAL 5, STORE 10, LOAD_ADDR 10, PUT 1, END (AC = 5,
\* mem[10] = 5, output 5) and exits with SUCCESS, for every timer value
\* the machine accepts (stated here for the values N >= 1).
C16_Original == interrupt_timer >= 1 => ScenarioRun

\* C16 as amended: so it is for every timer value N >= 5; with
\* 1 <= N <= 4 the timer check after the N-th instruction enters the
\* handler at 1000, an unloaded cell, and the machine exits with
\* INVALID_OPCODE after N instructions.
C16_Scenario ==
  /\ interrupt_timer >= Len(ScenarioOpcodes) => ScenarioRun
  /\ interrupt_timer \in 1..(Len(ScenarioOpcodes) - 1) =>
       /\ ~crashed
       /\ instruction_counter <= interrupt_timer
       /\ (phase = "execute" /\ ~kernelMode) =>
            registers[IR] = ScenarioOpcodes[instruction_counter + 1]
       /\ kernelMode => instruction_counter = interrupt_timer
       /\ exited =>
            /\ exitCode = INVALID_OPCODE
            /\ kernelMode
            /\ registers[PC] = SYS_INDEX + 1
            /\ registers[IR] = 0
            /\ instruction_counter = interrupt_timer

\* END has ended the scenario with timer value 5, 5 printed
C16_Witness ==
  /\ exited /\ exitCode = SUCCESS
  /\ interrupt_timer = Len(ScenarioOpcodes)
  /\ registers[AC] = 5 /\ memory[10] = 5
  /\ output = << <<"int", 5>> >>
  /\ memory[0] = LOAD_VAL /\ memory[SYS_INDEX] = 0

\* the instructions of the set: 1..30 and 50
InstructionSet == (1..30) \cup {50}

\* C17: an IR that is no instruction of the set (99, or the 0 of an
\* unloaded cell) halts the machine at once with INVALID_OPCODE: after the
\* fetch no register, flag, shadow pointer or memory cell changes, no
\* request is sent, the counter is not incremented, and nothing runs after
\* the exit: no timer check, no fetch.
C17_InvalidOpcode ==
  [][ /\ ~exited
      /\ (phase = "execute" /\ registers[IR] \notin InstructionSet) =>
           /\ exited' /\ exitCode' = INVALID_OPCODE
           /\ phase' = "exited"
           /\ instruction_counter' = instruction_counter
           /\ sent' = <<>>
           /\ UNCHANGED <<registers, memory, kernelMode, interruptEnabledFlag,
                          inactive_sys_stack, inactive_proc_stack, output>>
    ]_vars

\* the machine has halted on the 0 of the unloaded timer handler, entered
\* after the second instruction of a user program
C17_Witness ==
  /\ exited /\ exitCode = INVALID_OPCODE /\ phase = "exited"
  /\ kernelMode
  /\ registers[IR] = 0 /\ registers[PC] = SYS_INDEX + 1
  /\ instruction_counter = 2

\* a < 0 or a >= 2000
OutOfBounds(a) == a < 0 \/ a >= 2000

\* the content of cell a, for an a that may be no cell
Cell(a) == IF OutOfBounds(a) THEN 0 ELSE memory[a]

\* the accesses of this step in the order the instruction makes them, each
\* with the mode it is made in: the fetch; the operand and the cell it
\* names; the stack cell; the five frame cells of an interrupt entry (in
\* Kernel mode) and of SYSRETURN
Targets ==
  LET r == registers
      here(a) == [address |-> a, kernel |-> kernelMode]
      op == r[IR]
  IN IF phase = "fetch" THEN <<here(r[PC])>>
     ELSE IF EntryStep /\ interrupt_timer > 0
       THEN [i \in 1..(REGCOUNT - 1) |->
               [address |-> inactive_sys_stack - i, kernel |-> TRUE]]
     ELSE IF phase # "execute" THEN <<>>
     ELSE IF op \in {LOAD_VAL, PUT, JUMP, JUMP_IF_EQ, JUMP_IF_NEQ}
       THEN <<here(r[PC])>>
     ELSE IF op \in {LOAD_ADDR, STORE}
       THEN <<here(r[PC]), here(Cell(r[PC]))>>
     ELSE IF op = LOAD_IND_ADDR
       THEN <<here(r[PC]), here(Cell(r[PC])), here(Cell(Cell(r[PC])))>>
     ELSE IF op = LOAD_IDX_X_ADDR
       THEN <<here(r[PC]), here(Cell(r[PC]) + r[X])>>
     ELSE IF op = LOAD_IDX_Y_ADDR
       THEN <<here(r[PC]), here(Cell(r[PC]) + r[Y])>>
     ELSE IF op = LOAD_SPX THEN <<here(r[SP] + r[X])>>
     ELSE IF op = PUSH THEN <<here(r[SP] - 1)>>
     ELSE IF op \in {POP, RETURN} THEN <<here(r[SP])>>
     ELSE IF op = JUMP_RETURN THEN <<here(r[SP] - 1), here(r[PC])>>
     ELSE IF op = SYSRETURN
       THEN [i \in 1..(REGCOUNT - 1) |-> here(r[SP] + REGCOUNT - 1 - i)]
     ELSE <<>>

\* the accesses of this step that come before one out of bounds, all of
\* them allowed: 0 when there is none
FirstOutOfBounds ==
  LET ts == Targets
      hit == { i \in 1..Len(ts) :
                 /\ OutOfBounds(ts[i].address)
                 /\ \A j \in 1..(i - 1) : Allowed(ts[j]) }
  IN IF hit = {} THEN 0 ELSE CHOOSE i \in hit : \A j \in hit : i <= j

\* C18: an instruction whose access targets an address a < 0 or a >= 2000,
\* in either mode, halts the machine with MEMORY_OUT_OF_BOUNDS before a
\* request for that address is sent (only the accesses before it are) and
\* before anything else executes; the machine halts with that code in no
\* other case.
C18_OutOfBounds ==
  [][ LET i == FirstOutOfBounds
      IN /\ i > 0 =>
              /\ exited' /\ exitCode' = MEMORY_OUT_OF_BOUNDS
              /\ phase' = "exited"
              /\ instruction_counter' = instruction_counter
              /\ Len(sent') = i - 1
              /\ \A j \in 1..Len(sent') : ~OutOfBounds(sent'[j].address)
         /\ (exited' /\ exitCode' = MEMORY_OUT_OF_BOUNDS) => i > 0 ]_vars

\* LOAD_IDX_X_ADDR 0 with X = -1 has halted the machine in User mode, its
\* operand read and nothing else
C18_Witness ==
  /\ exited /\ exitCode = MEMORY_OUT_OF_BOUNDS
  /\ ~kernelMode
  /\ registers[IR] = LOAD_IDX_X_ADDR /\ registers[X] = 0 - 1
  /\ Len(sent) = 1 /\ sent[1].address = 2

\* C19: the Processor leaves the execution loop only by exit, with one of
\* SUCCESS, INVALID_OPCODE, MEMORY_OUT_OF_BOUNDS, KERNEL_MEM_ACCESS_DENIED,
\* USER_MEM_ACCESS_DENIED, INVALID_PORT_CALL, for every program and every
\* timer value main accepts.
C19_Original ==
  /\ ~crashed
  /\ exited => exitCode \in {SUCCESS, INVALID_OPCODE, MEMORY_OUT_OF_BOUNDS,
                             KERNEL_MEM_ACCESS_DENIED, USER_MEM_ACCESS_DENIED,
                             INVALID_PORT_CALL}

\* the five cells below k hold the PC, IR, AC, X, Y recorded at the entry
FrameIntact(k) ==
  /\ memory[k - 1] = probe.registers[PC]
  /\ memory[k - 2] = probe.registers[IR]
  /\ memory[k - 3] = probe.registers[AC]
  /\ memory[k - 4] = probe.registers[X]
  /\ memory[k - 5] = probe.registers[Y]

\* C20: an interrupt entry from User mode (timer or SYSCALL) followed by a
\* handler that has SP at its entry value and the five frame cells as the
\* entry wrote them when it executes SYSRETURN: after the SYSRETURN PC, IR,
\* AC, X, Y and SP, the mode, the interrupt flag and the saved kernel SP
\* are what they were right before the entry.
C20_Transparent ==
  [][ LET k == probe.inactive_sys_stack
      IN ( /\ KernelReturnStep
           /\ registers[SP] = k - (REGCOUNT - 1)
           /\ FrameIntact(k) ) =>
         /\ ~exited'
         /\ registers' = probe.registers
         /\ ~kernelMode' /\ interruptEnabledFlag'
         /\ inactive_sys_stack' = k ]_vars

\* the timer handler, which loads 7 into AC, X and Y, has returned to a
\* user program that had X = 1: the registers are those of the entry
C20_Witness ==
  /\ phase = "check" /\ ~kernelMode /\ ~exited
  /\ memory[SYS_INDEX] = LOAD_VAL
  /\ instruction_counter >= 5
  /\ probe.registers[X] = 1 /\ probe.registers[IR] = INCX
  /\ registers = probe.registers
  /\ inactive_sys_stack = probe.inactive_sys_stack
  /\ memory[MEMORY_SIZE - 1] = registers[PC]
  /\ memory[MEMORY_SIZE - 4] = 1

\* the step is a call of pushStack / of popStack
PushStep == phase = "stack" /\ probe'.count # probe.count /\ probe'.op = "push"
PopStep == phase = "stack" /\ probe'.count # probe.count /\ probe'.op = "pop"

\* the current mode may access the cell a
StackCell(a) == IF kernelMode THEN a \in KernelRegion ELSE a \in UserRegion

\* pushStack(v) with SP = s has written v at s - 1 and left SP = s - 1
PushEffect ==
  LET s == registers[SP]
  IN /\ ~exited'
     /\ memory' = [memory EXCEPT ![s - 1] = probe'.value]
     /\ registers' = [registers EXCEPT ![SP] = s - 1]

\* popStack() with SP = s has returned the content of s and left SP = s + 1
PopEffect ==
  LET s == registers[SP]
  IN /\ ~exited'
     /\ probe'.result = memory[s]
     /\ memory' = memory
     /\ registers' = [registers EXCEPT ![SP] = s + 1]

\* the call has ended the process and left the memory alone
StackHalt == exited' /\ memory' = memory /\ sent' = <<>>

\* a popStack right after a pushStack returns the value pushed and leaves
\* SP as it was before the push
PushThenPop ==
  (PopStep /\ probe.op = "push") =>
     /\ ~exited'
     /\ probe'.result = probe.value
     /\ registers'[SP] = probe.sp

\* after a push SP addresses the cell that holds the value pushed
AddressesLast ==
  (PushStep /\ ~exited') => memory'[registers'[SP]] = probe'.value

\* the first push with SP as run_processor set it writes cell 999, the
\* first push on the stack syscall switches to writes cell 1999
FirstPush ==
  (PushStep /\ probe.initial /\ probe.count = 0) =>
     /\ ~exited'
     /\ sent'[1].kind = WRITE
     /\ sent'[1].address = IF kernelMode THEN MEMORY_SIZE - 1
                           ELSE SYS_INDEX - 1

\* C21: pushStack(v) with SP = s, where the current mode may access cell
\* s - 1, writes v at s - 1 and leaves SP = s - 1; popStack() with SP = s,
\* where the mode may access cell s, returns the content of s and leaves
\* SP = s + 1; where the mode may not access the cell the call ends the
\* process and the memory is unchanged.  A push followed by a pop returns
\* the value pushed and restores SP; after a push SP addresses the last
\* pushed cell; the first user push writes cell 999 and the first kernel
\* push writes cell 1999.
C21_Stack ==
  [][ /\ PushStep =>
           IF StackCell(registers[SP] - 1) THEN PushEffect ELSE StackHalt
      /\ PopStep =>
           IF StackCell(registers[SP]) THEN PopEffect ELSE StackHalt
      /\ PushThenPop
      /\ AddressesLast
      /\ FirstPush ]_vars

\* 1337 was pushed with SP = 1001 in Kernel mode and popped again
C21_Witness ==
  /\ phase = "stack" /\ kernelMode /\ ~exited
  /\ probe.op = "pop" /\ probe.count = 2
  /\ probe.value = 1337 /\ probe.result = 1337
  /\ probe.sp = SYS_INDEX + 1 /\ registers[SP] = SYS_INDEX + 1
  /\ memory[SYS_INDEX] = 1337

\* C21 as stated, for every SP: pushStack(v) with SP = s writes v at s - 1
\* and leaves SP = s - 1, popStack() with SP = s returns the content of s
\* and leaves SP = s + 1.
C21_Original ==
  [][ /\ PushStep => PushEffect
      /\ PopStep => PopEffect
      /\ PushThenPop
      /\ AddressesLast
      /\ FirstPush ]_vars

\* JUMP_RETURN / RETURN is executed by this step
CallStep == phase = "execute" /\ registers[IR] = JUMP_RETURN
ReturnStep == phase = "execute" /\ registers[IR] = RETURN

\* JUMP_RETURN at p with SP = s has pushed p + 2 and set PC to the content
\* of cell p + 1; fetchInstruction has left PC = p + 1
CallEffect ==
  LET s == registers[SP]
      p == registers[PC] - 1
  IN /\ ~exited'
     /\ memory' = [memory EXCEPT ![s - 1] = p + 2]
     /\ registers' = [registers EXCEPT ![SP] = s - 1, ![PC] = memory'[p + 1]]

\* RETURN has set PC = p + 2 and SP to its value before the call c
ReturnEffect22(c) ==
  /\ ~exited'
  /\ registers' = [registers EXCEPT ![PC] = c.p + 2, ![SP] = c.sp]
  /\ memory' = memory

C23_Counter ==
  /\ instruction_counter = 0
  /\ [][ /\ (phase = "execute" /\ ~exited') =>
              /\ instruction_counter' = instruction_counter + 1
              /\ phase' = "check"
         /\ (phase # "execute" \/ exited') =>
              instruction_counter' = instruction_counter
         /\ phase = "check" => instruction_counter >= 1 ]_vars

\* timer 2: SYSCALL at 0, the four instructions of the handler at 1500 and
\* its SYSRETURN, INCX at 1 with the timer entry after it, and the first
\* instruction of the timer handler: seven instructions, counter 7
C23_Witness ==
  /\ phase = "check" /\ kernelMode /\ ~exited
  /\ interrupt_timer = 2
  /\ memory[0] = SYSCALL /\ memory[1] = INCX
  /\ memory[INT_INDEX] = LOAD_VAL /\ memory[SYS_INDEX] = LOAD_VAL
  /\ registers[PC] = SYS_INDEX + 2
  /\ probe.registers[X] = 1
  /\ instruction_counter = 7

\* C24: a step that switches from User to Kernel mode and does not end the
\* process is a timer check, which sets PC = 1000, or the execution of a
\* SYSCALL instruction, which sets PC = 1500; the timer check that follows
\* an entry, in Kernel mode, leaves PC alone, and the next fetch reads the
\* cell PC addresses: the handler's first instruction is fetched from 1000
\* or 1500.
C24_Handler ==
  [][ /\ (ModeSwitch /\ ~exited') =>
           /\ phase \in {"execute", "check"}
           /\ phase = "execute" => registers[IR] = SYSCALL
           /\ registers'[PC] = IF phase = "check" THEN 1000 ELSE 1500
      /\ (phase = "check" /\ kernelMode /\ ~crashed') =>
           registers'[PC] = registers[PC] /\ kernelMode'
      /\ (phase = "fetch" /\ ~exited') =>
           /\ Len(sent') = 1
           /\ sent'[1].kind = READ /\ sent'[1].address = registers[PC]
           /\ registers'[IR] = memory[registers[PC]] ]_vars

\* timer 3: SYSCALL at 0 has entered at 1500 and returned, INCX at 1 was the
\* third instruction and the timer check has entered at 1000
C24_Witness ==
  /\ phase = "fetch" /\ kernelMode /\ ~exited
  /\ interrupt_timer = 3 /\ instruction_counter = 3
  /\ memory[0] = SYSCALL /\ memory[INT_INDEX] = SYSRETURN
  /\ probe.registers[IR] = INCX /\ probe.registers[X] = 1
  /\ registers[PC] = 1000

\* C25: whenever the machine is in User mode at an instruction boundary
\* (an instruction is about to be fetched), the saved kernel SP lies in
\* 1000..2000, for every program, one that executes SYSRETURN in User mode
\* included.
C25_Original ==
  (phase = "fetch" /\ ~kernelMode /\ ~exited) =>
     inactive_sys_stack \in SYS_INDEX..MEMORY_SIZE

\* the timer check of this step follows a SYSCALL instruction that entered
\* its handler from User mode in this cycle and brought the counter to a
\* multiple of the timer value
SyscallOnTick ==
  /\ phase = "check" /\ kernelMode
  /\ probe.entered /\ ~probe.byTimer
  /\ instruction_counter = probe.counter + 1
  /\ TimerDue

\* C26: when a SYSCALL executed in User mode brings the counter to a
\* multiple of the timer value, the timer check of that cycle finds the
\* SYSCALL entry made (PC = 1500, Kernel mode, one frame of five cells below
\* the saved kernel SP) and changes nothing; the tick is not kept: a timer
\* check enters the handler only when the counter it sees is a multiple of
\* the timer value.
C26_SyscallFirst ==
  [][ /\ SyscallOnTick =>
           /\ registers[PC] = INT_INDEX
           /\ registers[SP] = probe.inactive_sys_stack - (REGCOUNT - 1)
           /\ FrameIntact(probe.inactive_sys_stack)
           /\ inactive_proc_stack = probe.registers[SP]
           /\ MachineUnchanged
           /\ phase' = "fetch"
      /\ (phase = "check" /\ interrupt_timer > 0 /\ ModeSwitch) => TimerDue
    ]_vars

\* timer 1: the SYSCALL at 0 was the first instruction, its entry is made
\* and the timer check of the cycle is over: PC = 1500, one frame below 2000
C26_Witness ==
  /\ phase = "fetch" /\ kernelMode /\ ~exited
  /\ interrupt_timer = 1 /\ instruction_counter = 1
  /\ memory[0] = SYSCALL
  /\ probe.entered /\ ~probe.byTimer /\ probe.counter = 0
  /\ registers[PC] = INT_INDEX
  /\ registers[SP] = MEMORY_SIZE - 5
  /\ memory[MEMORY_SIZE - 1] = 1
  /\ memory[MEMORY_SIZE - 6] = 0

\* the timer check of this step is the one right after the SYSRETURN of a
\* timer handler: the last entry was made by a timer check and no
\* instruction has been executed in User mode since
CheckAfterReturn ==
  /\ phase = "check" /\ ~kernelMode
  /\ interrupt_timer >= 1
  /\ probe.entered /\ probe.byTimer /\ ~probe.userRan

\* C27: for a timer value N >= 1, the timer check right after the SYSRETURN
\* of a timer handler sees the counter of the entry plus the number L >= 1
\* of instructions the handler executed; it enters the handler again, with
\* no User-mode instruction in between, exactly when that counter is a
\* multiple of N (for N = 1 always), and otherwise changes nothing, so that
\* a User-mode instruction is fetched next.
C27_Progress ==
  [][ CheckAfterReturn =>
        /\ instruction_counter > probe.counter
        /\ IF instruction_counter % interrupt_timer = 0
             THEN /\ ModeSwitch
                  /\ exited' \/ (registers'[PC] = SYS_INDEX /\ phase' = "fetch")
             ELSE MachineUnchanged /\ phase' = "fetch" ]_vars

\* timer 1 with the handler SYSRETURN: INCX at 0 was executed, the handler
\* was entered and has returned, and the timer check right after its
\* SYSRETURN has entered it again: X is still 1 and PC of the frame still 1
C27_Witness ==
  /\ phase = "fetch" /\ kernelMode /\ ~exited
  /\ interrupt_timer = 1 /\ instruction_counter = 2
  /\ memory[0] = INCX /\ memory[SYS_INDEX] = SYSRETURN
  /\ probe.entered /\ probe.byTimer /\ ~probe.userRan
  /\ probe.counter = 2
  /\ registers[PC] = SYS_INDEX
  /\ registers[X] = 1
  /\ memory[MEMORY_SIZE - 1] = 1

\* C27 as stated: for every timer value N >= 1, between two consecutive
\* timer-interrupt entries at least one instruction is executed in User
\* mode.
C27_Original ==
  [][ ( /\ phase = "check" /\ ModeSwitch
        /\ interrupt_timer >= 1
        /\ probe.entered /\ probe.byTimer ) => probe.userRan ]_vars

====
